---------------------------- MODULE Spec2Model ----------------------------
(***************************************************************************)
(* Model of the routing core of src/app.py (Alofi Sustainability           *)
(* Navigation): find_nearest_node, get_diverse_routes, summarize_routes    *)
(* and the two edge-cost helpers calculate_co2 / estimate_ventilation.     *)
(*                                                                         *)
(* Three specifications, one per operation, each started on every input    *)
(* of a bounded family:                                                    *)
(*   SpecRoutes   get_diverse_routes   (one step per loop iteration)       *)
(*   SpecSummary  summarize_routes     (one step per route of the list)    *)
(*   SpecNearest  find_nearest_node    (one step per node scanned)         *)
(*                                                                         *)
(* Numbers.  travel_time weights and the penalty factor are naturals, so   *)
(* that `*=` is exact.  Lengths are whole metres that are multiples of     *)
(* 100, travel times whole minutes: on such inputs every round(., k) of    *)
(* the summary is exact, and the record fields are kept in fixed point     *)
(* (CO2 in centigrams, score and mean ventilation in hundredths).          *)
(***************************************************************************)
EXTENDS Integers, Sequences, FiniteSets

VARIABLES
    \* ---- get_diverse_routes
    heap,            \* object -> travel_time of every edge of that graph object
    start_node,      \* argument
    end_node,        \* argument
    num_routes,      \* argument
    penalty_factor,  \* argument
    routes,          \* local list `routes`
    i,               \* iterations of `for i in range(num_routes)` completed
    pc,              \* "idle" | "loop" | "done" (returned) | "raised"
    \* ---- summarize_routes
    G,               \* module-level graph: edge -> attribute dict
    sr_routes,       \* argument `routes`
    sr_i,            \* routes of the list already summarised
    vent_count,      \* local `vent_count`: <<>> while unbound, else <<n>>
    summary,         \* local list `summary`
    sr_pc,           \* "idle" | "loop" | "done" | "raised"
    \* ---- find_nearest_node
    nn_nodes,        \* G.nodes(data=True) in iteration order: coordinates (y, x)
    coord,           \* argument
    nn_k,            \* nodes already scanned
    min_dist,        \* <<>> for float("inf"), else <<d>>
    nearest_node,    \* <<>> for None, else <<node_id>>
    nn_pc            \* "idle" | "loop" | "done"

routeVars   == <<heap, start_node, end_node, num_routes, penalty_factor, routes, i, pc>>
summaryVars == <<G, sr_routes, sr_i, vent_count, summary, sr_pc>>
nearestVars == <<nn_nodes, coord, nn_k, min_dist, nearest_node, nn_pc>>
vars        == <<routeVars, summaryVars, nearestVars>>

-----------------------------------------------------------------------------
(* Bounds of the input families *)

MaxWeight  == 2     \* travel_time of an input edge is in 0..MaxWeight
MaxRoutes  == 3     \* num_routes is in 1..MaxRoutes
MaxNodes   == 3     \* find_nearest_node scans a graph of 0..MaxNodes nodes
GridMax    == 1     \* node and query coordinates are in (0..GridMax) x (0..GridMax)
MaxListLen == 2     \* summarize_routes is given a list of 0..MaxListLen routes

\* def get_diverse_routes(..., num_routes=5, penalty_factor=2.0)
DefaultPenalty == 2

\* penalty_factor of a call: the default, 1 (no penalty) and 0 (a used
\* edge becomes free).
Penalties == {0, 1, DefaultPenalty}

-----------------------------------------------------------------------------
(* Graphs of the planner *)

Nodes == {"A", "B", "C", "D"}

\* A node identifier that is in no graph.
Missing == "Z"

\* The directed edges a graph of the family may have.  All five: three
\* A-to-D paths (A B C D, A C D, A B D); only the first three: the line
\* A-B-C-D; none: every pair disconnected.
CandidateEdges ==
    {<<"A", "B">>, <<"B", "C">>, <<"C", "D">>, <<"A", "C">>, <<"B", "D">>}

Graphs ==
    UNION {[E -> 0..MaxWeight] : E \in SUBSET CandidateEdges}

StartNodes == {"A", Missing}
EndNodes   == {"A", "D", Missing}

RECURSIVE SeqsOfDistinct(_)
\* Every sequence of n distinct nodes.
SeqsOfDistinct(n) ==
    IF n = 0 THEN {<<>>}
    ELSE {Append(p, x) : <<p, x>> \in
            {<<q, y>> \in SeqsOfDistinct(n - 1) \X Nodes :
                \A k \in 1..Len(q) : q[k] # y}}

SimpleSeqs == UNION {SeqsOfDistinct(n) : n \in 1..Cardinality(Nodes)}

\* zip(route[:-1], route[1:])
Pairs(route) == [k \in 1..(Len(route) - 1) |-> <<route[k], route[k + 1]>>]

PairSet(route) == {Pairs(route)[k] : k \in 1..(Len(route) - 1)}

RECURSIVE SumTo(_, _)
\* f[1] + ... + f[n]
SumTo(f, n) == IF n = 0 THEN 0 ELSE SumTo(f, n - 1) + f[n]

\* Sum of travel_time along a path whose pairs are all edges of tt.
PathCost(tt, route) ==
    SumTo([k \in 1..(Len(route) - 1) |-> tt[Pairs(route)[k]]], Len(route) - 1)

\* The simple paths from s to e over the edges of tt.
PathsBetween(tt, s, e) ==
    {p \in SimpleSeqs :
        /\ p[1] = s
        /\ p[Len(p)] = e
        /\ PairSet(p) \subseteq DOMAIN tt}

\* nx.shortest_path(G_temp, source, target, weight='travel_time'): a path of
\* least total travel_time.  Which of several least paths it returns is the
\* library's tie-break, so every one of them is a possible result.  With
\* source = target the result is the one-node path.
ShortestPaths(tt, s, e) ==
    {p \in PathsBetween(tt, s, e) :
        \A q \in PathsBetween(tt, s, e) : PathCost(tt, p) <= PathCost(tt, q)}


-----------------------------------------------------------------------------
(* get_diverse_routes *)

\* The two graph objects of a call: the caller's `graph` and the object that
\* graph.copy() builds.  A copy has its own attribute dicts, so a write to
\* one object's travel_time is not seen through the other.
Objects == {"graph", "G_temp"}

\* An aliasing slip: G_temp = graph.
GraphAlias == "graph"

\* G_temp = graph.copy(): the object G_temp names.
GraphCopy == "G_temp"

\* A slip: travel_time += penalty_factor.
PenalizeAdd(tt, route, P) ==
    [e \in DOMAIN tt |-> IF e \in PairSet(route) THEN tt[e] + P ELSE tt[e]]

\* for u, v in zip(route[:-1], route[1:]):
\*     if G_temp.has_edge(u, v): G_temp[u][v]['travel_time'] *= penalty_factor
\* A route of nx.shortest_path is a simple path: no pair occurs twice in it.
Penalize(tt, route, P) ==
    [e \in DOMAIN tt |-> IF e \in PairSet(route) THEN tt[e] * P ELSE tt[e]]

\* A slip: no `except nx.NetworkXNoPath`, the exception leaves the function.
NoPathPropagates == "raised"

\* except nx.NetworkXNoPath: st.warning(...); break   -- then `return routes`
NoPathOutcome == "done"

\* nx.shortest_path raises nx.NodeNotFound when source or target is not a
\* node of the graph; NodeNotFound is not a NetworkXNoPath, so the except
\* clause does not catch it.
NodeNotFoundOutcome == "raised"

NearestIdle ==
    /\ nn_nodes = <<>>
    /\ coord = <<0, 0>>
    /\ nn_k = 0
    /\ min_dist = <<>>
    /\ nearest_node = <<>>
    /\ nn_pc = "idle"

SummaryIdle ==
    /\ G = <<>>
    /\ sr_routes = <<>>
    /\ sr_i = 0
    /\ vent_count = <<>>
    /\ summary = <<>>
    /\ sr_pc = "idle"

RoutesIdle ==
    /\ heap = <<>>
    /\ start_node = Missing
    /\ end_node = Missing
    /\ num_routes = 0
    /\ penalty_factor = 0
    /\ routes = <<>>
    /\ i = 0
    /\ pc = "idle"

\* Entry of get_diverse_routes: routes = [], G_temp = graph.copy().
InitRoutes ==
    /\ \E g \in Graphs : heap = [o \in Objects |-> g]
    /\ start_node \in StartNodes
    /\ end_node \in EndNodes
    /\ num_routes \in 1..MaxRoutes
    /\ penalty_factor \in Penalties
    /\ routes = <<>>
    /\ i = 0
    /\ pc = "loop"
    /\ SummaryIdle
    /\ NearestIdle

\* One iteration in which nx.shortest_path returns a route.
IterRoute ==
    /\ pc = "loop"
    /\ i < num_routes
    /\ start_node \in Nodes
    /\ end_node \in Nodes
    /\ \E route \in ShortestPaths(heap[GraphCopy], start_node, end_node) :
        /\ routes' = Append(routes, route)
        /\ heap' = [heap EXCEPT
                      ![GraphCopy] = Penalize(heap[GraphCopy], route, penalty_factor)]
    /\ i' = i + 1
    /\ UNCHANGED <<start_node, end_node, num_routes, penalty_factor, pc>>
    /\ UNCHANGED <<summaryVars, nearestVars>>

\* One iteration in which nx.shortest_path raises NetworkXNoPath.
IterNoPath ==
    /\ pc = "loop"
    /\ i < num_routes
    /\ start_node \in Nodes
    /\ end_node \in Nodes
    /\ PathsBetween(heap[GraphCopy], start_node, end_node) = {}
    /\ pc' = NoPathOutcome
    /\ UNCHANGED <<heap, start_node, end_node, num_routes, penalty_factor, routes, i>>
    /\ UNCHANGED <<summaryVars, nearestVars>>

\* One iteration in which nx.shortest_path raises NodeNotFound.
IterNodeNotFound ==
    /\ pc = "loop"
    /\ i < num_routes
    /\ ~(start_node \in Nodes /\ end_node \in Nodes)
    /\ pc' = NodeNotFoundOutcome
    /\ UNCHANGED <<heap, start_node, end_node, num_routes, penalty_factor, routes, i>>
    /\ UNCHANGED <<summaryVars, nearestVars>>

\* range(num_routes) is exhausted: return routes.
LoopExit ==
    /\ pc = "loop"
    /\ i = num_routes
    /\ pc' = "done"
    /\ UNCHANGED <<heap, start_node, end_node, num_routes, penalty_factor, routes, i>>
    /\ UNCHANGED <<summaryVars, nearestVars>>

NextRoutes == IterRoute \/ IterNoPath \/ IterNodeNotFound \/ LoopExit

SpecRoutes == InitRoutes /\ [][NextRoutes]_vars

-----------------------------------------------------------------------------
(* Claims about get_diverse_routes, checked under SpecRoutes *)

RECURSIVE Pow(_, _)
Pow(b, n) == IF n = 0 THEN 1 ELSE b * Pow(b, n - 1)

\* The number of routes 1..k that traverse edge e.
TimesUsed(e, k) == Cardinality({j \in 1..k : e \in PairSet(routes[j])})

\* The caller's weights, each multiplied by penalty_factor once per route
\* 1..k-1 that traverses the edge.
WeightsBefore(k) ==
    [e \in DOMAIN heap["graph"] |->
        heap["graph"][e] * Pow(penalty_factor, TimesUsed(e, k - 1))]

\* C1: at most num_routes routes are returned, and the k-th route is a
\* shortest start-to-end path under the original travel_time of each edge
\* multiplied by penalty_factor raised to the number of routes 1..k-1 that
\* traverse the edge (route 1: under the original weights).
C1_RoutesShortestUnderPenalties ==
    /\ Len(routes) <= num_routes
    /\ \A k \in 1..Len(routes) :
        routes[k] \in ShortestPaths(WeightsBefore(k), start_node, end_node)

\* Three routes returned, an edge shared by routes 1 and 2 (so its weight
\* is the original times penalty_factor squared when route 3 is searched),
\* and route 3 is a third path.
C1_Witness ==
    /\ pc = "done"
    /\ Len(routes) = 3
    /\ penalty_factor = 2
    /\ routes[3] \notin {routes[1], routes[2]}
    /\ \E e \in DOMAIN heap["graph"] :
        /\ TimesUsed(e, 2) = 2
        /\ heap["graph"][e] > 0
        /\ heap[GraphCopy][e] >= 4 * heap["graph"][e]

\* C2: the returned routes are pairwise distinct, and when the graph has
\* exactly one path from start to end the result holds exactly one route.
\* Stated for start_node # end_node (the one-node route is C3's case) and
\* for a penalty_factor above 1, which does raise the weight of a used edge.
C2_RoutesPairwiseDistinct ==
    (pc = "done" /\ start_node # end_node /\ penalty_factor > 1) =>
        /\ \A j, k \in 1..Len(routes) : j < k => routes[j] # routes[k]
        /\ (/\ start_node \in Nodes
            /\ end_node \in Nodes
            /\ Cardinality(PathsBetween(heap["graph"], start_node, end_node)) = 1)
           => Len(routes) = 1

\* C3: with start_node = end_node, a node of the graph, the result is the
\* list holding the one-node route once, whatever num_routes is.
C3_SameNodeGivesOneRoute ==
    (pc = "done" /\ start_node = end_node /\ start_node \in Nodes)
        => routes = << <<start_node>> >>

\* C4: with both nodes in the graph the planner never raises; an iteration
\* that finds no path ends the call returning the routes of the earlier
\* iterations, and for a disconnected start and end that is the empty list.
C4_NoPathReturnsRoutesSoFar ==
    (start_node \in Nodes /\ end_node \in Nodes) =>
        /\ pc # "raised"
        /\ (pc = "done" /\ Len(routes) < num_routes) =>
              /\ Len(routes) = i
              /\ PathsBetween(heap[GraphCopy], start_node, end_node) = {}
        /\ (pc = "done"
              /\ PathsBetween(heap["graph"], start_node, end_node) = {})
           => routes = <<>>

\* A call on a disconnected pair, asking for several routes, has returned.
C4_Witness ==
    /\ pc = "done"
    /\ start_node \in Nodes
    /\ end_node \in Nodes
    /\ start_node # end_node
    /\ num_routes >= 2
    /\ PathsBetween(heap["graph"], start_node, end_node) = {}
    /\ routes = <<>>

\* C5: no step of get_diverse_routes changes the caller's graph: only the
\* working copy G_temp is written.
C5_GraphNeverMutated == [][heap'["graph"] = heap["graph"]]_vars

\* The call has returned and the working copy differs from the graph.
C5_Witness ==
    /\ pc = "done"
    /\ Len(routes) = num_routes
    /\ heap["G_temp"] # heap["graph"]

\* C9: a start or end identifier that is not a node of the graph is
\* reported as an explicit invalid-input result: the call neither raises
\* nor returns a route list.
C9_MissingNodeIsAResultValue ==
    (start_node \notin Nodes \/ end_node \notin Nodes)
        => pc \in {"loop", "invalid_input"}

-----------------------------------------------------------------------------
(* find_nearest_node *)

GridPoints == (0..GridMax) \X (0..GridMax)

\* Every node list of 0..MaxNodes nodes; a node's identifier is its place
\* in the iteration order of G.nodes.
NodeLists == UNION {[1..n -> GridPoints] : n \in 0..MaxNodes}

\* great_circle(coord, node_coord).meters: a distance, zero between equal
\* points.  The scan uses only the order of the distances; on the grid the
\* squared planar distance stands for it.
Dist(c1, c2) ==
    (c1[1] - c2[1]) * (c1[1] - c2[1]) + (c1[2] - c2[2]) * (c1[2] - c2[2])

\* A slip: `if dist <= min_dist`.
CloserOrEqual(dist, m) == IF m = <<>> THEN TRUE ELSE dist <= m[1]

\* if dist < min_dist        (min_dist starts at float("inf"))
Closer(dist, m) == IF m = <<>> THEN TRUE ELSE dist < m[1]

InitNearest ==
    /\ nn_nodes \in NodeLists
    /\ coord \in GridPoints
    /\ nn_k = 0
    /\ min_dist = <<>>
    /\ nearest_node = <<>>
    /\ nn_pc = "loop"
    /\ RoutesIdle
    /\ SummaryIdle

\* A loop iteration that takes the node as the nearest so far.
ScanCloser ==
    /\ nn_pc = "loop"
    /\ nn_k < Len(nn_nodes)
    /\ Closer(Dist(coord, nn_nodes[nn_k + 1]), min_dist)
    /\ min_dist' = <<Dist(coord, nn_nodes[nn_k + 1])>>
    /\ nearest_node' = <<nn_k + 1>>
    /\ nn_k' = nn_k + 1
    /\ UNCHANGED <<nn_nodes, coord, nn_pc>>
    /\ UNCHANGED <<routeVars, summaryVars>>

\* A loop iteration that leaves the nearest so far.
ScanNotCloser ==
    /\ nn_pc = "loop"
    /\ nn_k < Len(nn_nodes)
    /\ ~Closer(Dist(coord, nn_nodes[nn_k + 1]), min_dist)
    /\ nn_k' = nn_k + 1
    /\ UNCHANGED <<nn_nodes, coord, min_dist, nearest_node, nn_pc>>
    /\ UNCHANGED <<routeVars, summaryVars>>

\* return nearest_node
NearestReturn ==
    /\ nn_pc = "loop"
    /\ nn_k = Len(nn_nodes)
    /\ nn_pc' = "done"
    /\ UNCHANGED <<nn_nodes, coord, nn_k, min_dist, nearest_node>>
    /\ UNCHANGED <<routeVars, summaryVars>>

NextNearest == ScanCloser \/ ScanNotCloser \/ NearestReturn

SpecNearest == InitNearest /\ [][NextNearest]_vars

\* C8: for a graph with a node the result is a node no farther from the
\* query than any other, the first such in iteration order; for a graph
\* with no node the result is None.
C8_NearestIsFirstMinimum ==
    nn_pc = "done" =>
        IF nn_nodes = <<>>
        THEN nearest_node = <<>>
        ELSE \E k \in 1..Len(nn_nodes) :
                /\ nearest_node = <<k>>
                /\ \A j \in 1..Len(nn_nodes) :
                    /\ Dist(coord, nn_nodes[k]) <= Dist(coord, nn_nodes[j])
                    /\ j < k => Dist(coord, nn_nodes[k]) < Dist(coord, nn_nodes[j])

\* The scan has returned the second node, a later node is at the same
\* least distance, and the first node is farther.
C8_Witness ==
    /\ nn_pc = "done"
    /\ nearest_node = <<2>>
    /\ \E j \in 3..Len(nn_nodes) :
        /\ nn_nodes[j] # nn_nodes[2]
        /\ Dist(coord, nn_nodes[j]) = Dist(coord, nn_nodes[2])

-----------------------------------------------------------------------------
(* Edge cost model and summarize_routes *)

\* def calculate_co2(length_meters, emission_rate_g_per_km=150)
EmissionRate == 150

\* calculate_co2(length): (length_meters / 1000) * emission_rate grams, here
\* in centigrams (exact for whole metres).
CalculateCo2(length_meters) == (length_meters * EmissionRate) \div 10

\* A highway attribute is a tag or a list of tags; an absent key reads ''.
Tag(t)     == [isList |-> FALSE, tag |-> t, tags |-> <<>>]
TagList(l) == [isList |-> TRUE, tag |-> "", tags |-> l]

\* estimate_ventilation(edge)
EstimateVentilation(edge) ==
    LET highway == IF edge.highway.isList
                   THEN edge.highway.tags[1]
                   ELSE edge.highway.tag
    IN  IF highway \in {"motorway", "tunnel"} THEN 3
        ELSE IF highway \in {"primary", "secondary"} THEN 2
        ELSE 1

\* edge.get('ventilation_penalty', estimate_ventilation(edge))
Ventilation(edge) ==
    IF edge.ventilation_penalty = <<>>
    THEN EstimateVentilation(edge)
    ELSE edge.ventilation_penalty[1]

Max(a, b) == IF a >= b THEN a ELSE b
Min(a, b) == IF a <= b THEN a ELSE b

\* score = 100 - (0.05 * calculated_co2) - (10 * ventilation), clamped to
\* 0..100; in hundredths.
EdgeScore(edge) ==
    Max(0, Min(10000,
        10000 - (5 * CalculateCo2(edge.length)) \div 100
              - 1000 * Ventilation(edge)))

\* round(n / d, .) with n / d in the unit of the last kept digit: to the
\* nearest integer, a tie to the even one.
RoundHalfEven(n, d) ==
    LET q == n \div d
        r == n % d
    IN  IF 2 * r < d THEN q
        ELSE IF 2 * r > d THEN q + 1
        ELSE IF q % 2 = 0 THEN q ELSE q + 1

\* The attribute dicts an edge of the summarised graph may have: a
\* residential street, a motorway given as a tag list, a long primary road
\* (its score clamps to 0), and an edge with an explicit ventilation_penalty.
EdgeDicts ==
    { [length |-> 2000, travel_time |-> 60, ventilation_penalty |-> <<>>,
       highway |-> Tag("residential")],
      [length |-> 1000, travel_time |-> 120, ventilation_penalty |-> <<>>,
       highway |-> TagList(<<"motorway", "residential">>)],
      [length |-> 14000, travel_time |-> 600, ventilation_penalty |-> <<>>,
       highway |-> Tag("primary")],
      [length |-> 0, travel_time |-> 0, ventilation_penalty |-> <<2>>,
       highway |-> Tag("tunnel")] }

SummaryEdges == {<<"A", "B">>, <<"B", "C">>}

SummaryGraphs == UNION {[E -> EdgeDicts] : E \in SUBSET SummaryEdges}

\* The routes a list may hold: the node sequences without a repeated node
\* over A, B, C.  Whether a pair of one is an edge depends on the graph.
SummaryRoutes == {p \in SimpleSeqs : \A k \in 1..Len(p) : p[k] # "D"}

RouteLists == UNION {[1..n -> SummaryRoutes] : n \in 0..MaxListLen}

\* The pairs of the route for which G.get_edge_data(u, v) is truthy, in
\* route order.
FoundPairs(g, route) ==
    {k \in 1..(Len(route) - 1) : Pairs(route)[k] \in DOMAIN g}

RECURSIVE SumOver(_, _)
\* The sum of f over the finite set S of its arguments.
SumOver(f, S) ==
    IF S = {} THEN 0
    ELSE LET x == CHOOSE y \in S : TRUE
         IN  f[x] + SumOver(f, S \ {x})

\* The body of `for i, route in enumerate(routes)` for one route, entered
\* with vent_count = vc: the totals of the inner loop, the value vent_count
\* has after it, and what the summary.append statement then does.
\*   raised: vent_count is still unbound (UnboundLocalError), or it is 0
\*           (ZeroDivisionError).
RouteBody(g, route, vc) ==
    LET found == FoundPairs(g, route)
        edge  == [k \in found |-> g[Pairs(route)[k]]]
        total_length      == SumOver([k \in found |-> edge[k].length], found)
        total_time        == SumOver([k \in found |-> edge[k].travel_time], found)
        total_co2         == SumOver([k \in found |-> CalculateCo2(edge[k].length)], found)
        total_ventilation == SumOver([k \in found |-> Ventilation(edge[k])], found)
        total_score       == SumOver([k \in found |-> EdgeScore(edge[k])], found)
        vc_after == IF found = {} THEN vc ELSE <<Len(route) - 1>>
        raised   == IF vc_after = <<>> THEN TRUE ELSE vc_after[1] = 0
    IN  [vent_count |-> vc_after,
         raised     |-> raised,
         metrics    |->
            [Nodes       |-> Len(route),
             Distance    |-> total_length,
             TravelTime  |-> RoundHalfEven(total_time * 10, 60),
             CO2         |-> total_co2,
             Ventilation |-> IF raised THEN 0
                             ELSE RoundHalfEven(total_ventilation * 100, vc_after[1]),
             Score       |-> total_score]]

InitSummary ==
    /\ G \in SummaryGraphs
    /\ sr_routes \in RouteLists
    /\ sr_i = 0
    /\ vent_count = <<>>
    /\ summary = <<>>
    /\ sr_pc = "loop"
    /\ RoutesIdle
    /\ NearestIdle

\* One route summarised and its record appended.
SummarizeRoute ==
    /\ sr_pc = "loop"
    /\ sr_i < Len(sr_routes)
    /\ LET b == RouteBody(G, sr_routes[sr_i + 1], vent_count)
       IN  /\ ~b.raised
           /\ vent_count' = b.vent_count
           /\ summary' = Append(summary, <<sr_i + 1, b.metrics>>)
    /\ sr_i' = sr_i + 1
    /\ UNCHANGED <<G, sr_routes, sr_pc>>
    /\ UNCHANGED <<routeVars, nearestVars>>

\* The append statement of a route raises: the exception leaves
\* summarize_routes and no DataFrame is returned.
SummarizeRaises ==
    /\ sr_pc = "loop"
    /\ sr_i < Len(sr_routes)
    /\ LET b == RouteBody(G, sr_routes[sr_i + 1], vent_count)
       IN  /\ b.raised
           /\ vent_count' = b.vent_count
    /\ sr_pc' = "raised"
    /\ UNCHANGED <<G, sr_routes, sr_i, summary>>
    /\ UNCHANGED <<routeVars, nearestVars>>

\* return pd.DataFrame(summary)
SummaryReturn ==
    /\ sr_pc = "loop"
    /\ sr_i = Len(sr_routes)
    /\ sr_pc' = "done"
    /\ UNCHANGED <<G, sr_routes, sr_i, vent_count, summary>>
    /\ UNCHANGED <<routeVars, nearestVars>>

NextSummary == SummarizeRoute \/ SummarizeRaises \/ SummaryReturn

SpecSummary == InitSummary /\ [][NextSummary]_vars

\* The route at place k of the list is the one whose append raised.
RaisedAt(k) == sr_pc = "raised" /\ sr_i + 1 = k

\* C6: a one-node route is summarised without error, wherever it stands in
\* the list, as node count 1 and distance, travel time, CO2 and mean
\* ventilation penalty 0.
C6_SingleNodeRouteSummarised ==
    \A k \in 1..Len(sr_routes) :
        Len(sr_routes[k]) = 1 =>
            /\ ~RaisedAt(k)
            /\ k <= Len(summary) =>
                /\ summary[k][2].Nodes = 1
                /\ summary[k][2].Distance = 0
                /\ summary[k][2].TravelTime = 0
                /\ summary[k][2].CO2 = 0
                /\ summary[k][2].Ventilation = 0

\* C7: the metrics of a route's record depend on the route and the graph
\* alone: at any place of any list they are what the same route yields as
\* the only route of a list (where no earlier route has run), and the mean
\* ventilation penalty is the route's total ventilation over its own
\* length - 1.
C7_RecordDependsOnRouteAlone ==
    \A k \in 1..Len(summary) :
        LET alone == RouteBody(G, sr_routes[k], <<>>)
        IN  /\ ~alone.raised
            /\ summary[k][2] = alone.metrics

\* C10: a pair of a route with no edge record adds nothing, the pairs with
\* one are accumulated, and the route's record is produced without error,
\* also when every pair of the route is missing.  Stated for routes with at
\* least one pair: the one-node route is C6's case.
C10_MissingPairsSkipped ==
    \A k \in 1..Len(sr_routes) :
        Len(sr_routes[k]) >= 2 =>
            /\ ~RaisedAt(k)
            /\ k <= Len(summary) =>
                LET found == FoundPairs(G, sr_routes[k])
                    edge  == [j \in found |-> G[Pairs(sr_routes[k])[j]]]
                IN  /\ summary[k][2].Distance =
                          SumOver([j \in found |-> edge[j].length], found)
                    /\ summary[k][2].CO2 =
                          SumOver([j \in found |-> CalculateCo2(edge[j].length)], found)
                    /\ summary[k][2].Score =
                          SumOver([j \in found |-> EdgeScore(edge[j])], found)

=============================================================================
